---- MODULE Spec2Model ----
(***************************************************************************)
(* Model of SVCApp (src/lib/svc.js): a directory of SVG files is turned    *)
(* into one stylesheet.  Strings are sequences of one-character strings,   *)
(* so that path.extname, String.split and the truthiness tests of the      *)
(* source are computed, not assumed.  Text that the program only           *)
(* concatenates (template literals, the CSS block) is a sequence of        *)
(* pieces in the order the source concatenates them.                       *)
(***************************************************************************)
EXTENDS Integers, Sequences, FiniteSets, TLC

\* Longest file list handed to process().
MaxFiles == 3

-----------------------------------------------------------------------------
(* JavaScript values *)

\* attr.width of an attribute that is not on the element.
Undefined == <<"undefined">>

\* The number 0 of `attr.width ? attr.width : 0`, distinct from the string "0".
NumZero == <<"Number(0)">>

\* Mutant of Truthy: the string "0" taken for the number 0.
TruthyZeroString(v) == v # Undefined /\ v # NumZero /\ v # <<>> /\ v # <<"0">>

\* ToBoolean of a string, undefined or the number 0.
Truthy(v) == v # Undefined /\ v # NumZero /\ v # <<>>

\* ${v} in a template literal.
Str(v) == IF v = NumZero THEN <<"0">> ELSE v

RECURSIVE IndexOf(_, _, _)
\* First index >= from of character c in s, 0 when there is none.
IndexOf(s, c, from) ==
    IF from > Len(s) THEN 0
    ELSE IF s[from] = c THEN from
    ELSE IndexOf(s, c, from + 1)

RECURSIVE LastIndexOf(_, _, _)
\* Last index <= from of character c in s, 0 when there is none.
LastIndexOf(s, c, from) ==
    IF from < 1 THEN 0
    ELSE IF s[from] = c THEN from
    ELSE LastIndexOf(s, c, from - 1)

RECURSIVE Split(_, _)
\* String.prototype.split with a one-character separator.
Split(s, c) ==
    LET k == IndexOf(s, c, 1) IN
    IF k = 0 THEN <<s>>
    ELSE <<SubSeq(s, 1, k - 1)>> \o Split(SubSeq(s, k + 1, Len(s)), c)

RECURSIVE Join(_, _)
\* Array.prototype.join.
Join(parts, sep) ==
    IF Len(parts) = 0 THEN <<>>
    ELSE IF Len(parts) = 1 THEN parts[1]
    ELSE parts[1] \o sep \o Join(Tail(parts), sep)

\* path.extname of a name without path separators.
extname(p) ==
    LET d == LastIndexOf(p, ".", Len(p)) IN
    IF d = 0 \/ d = 1 \/ p = <<".", ".">> THEN <<>>
    ELSE SubSeq(p, d, Len(p))

-----------------------------------------------------------------------------
(* Inputs: file names, file contents, command-line options *)

svgExt == <<".", "s", "v", "g">>

\* Directory entries the runs are given.
Names ==
    { <<"a", ".", "s", "v", "g">>,
      <<"i", "c", "o", "n", ".", "m", "i", "n", ".", "s", "v", "g">>,
      <<"a", ".", "s", "v", "g", ".", "t", "x", "t">>,
      <<"a", ".", "S", "V", "G">>,
      <<".", "s", "v", "g">> }

\* Values of --prefix (absent, or "ui-").
Prefixes == { <<>>, <<"u", "i", "-">> }

vb4 == <<"0", " ", "0", " ", "1", "0", "0", " ", "5", "0">>
vb3 == <<"0", " ", "0", " ", "1", "0", "0">>
\* Two spaces in a row: split(' ') gives an empty third token.
vbGap == <<"0", " ", "0", " ", " ", "5", "0">>

\* An svg element as xml2js yields it: hasAttr is whether the element object has
\* the attribute member `$` (xml2js creates it only for an element that
\* carries at least one attribute).
Elem(has, w, h, vb) == [hasAttr |-> has, width |-> w, height |-> h, viewBox |-> vb]

\* A file's content: whether xml2js parses it ("ok"), reports an error
\* ("malformed": the callback of parseString gets the error and no data) or
\* finds nothing to parse ("blank": the callback gets neither error nor
\* data), and the elements named svg that a well-formed document holds, in
\* the order xpath.find lists them.
File(id, parse, svgs) == [id |-> id, parse |-> parse, svgs |-> svgs]

Contents ==
    { File("malformed", "malformed", <<>>),
      File("blank", "blank", <<>>),
      File("nosvg", "ok", <<>>),
      File("bare", "ok", <<Elem(FALSE, Undefined, Undefined, Undefined)>>),
      File("xmlns", "ok", <<Elem(TRUE, Undefined, Undefined, Undefined)>>),
      File("wh", "ok", <<Elem(TRUE, <<"1", "0">>, <<"2", "0">>, Undefined)>>),
      File("w+vb", "ok", <<Elem(TRUE, <<"1", "0">>, Undefined, vb4)>>),
      File("h", "ok", <<Elem(TRUE, Undefined, <<"2", "0">>, Undefined)>>),
      File("vb4", "ok", <<Elem(TRUE, Undefined, Undefined, vb4)>>),
      File("vb3", "ok", <<Elem(TRUE, Undefined, Undefined, vb3)>>),
      File("vbGap", "ok", <<Elem(TRUE, Undefined, Undefined, vbGap)>>),
      File("00+vb", "ok", <<Elem(TRUE, <<"0">>, <<"0">>, vb4)>>),
      File("empty+vb", "ok", <<Elem(TRUE, <<>>, <<>>, vb4)>>),
      File("nested", "ok", <<Elem(TRUE, Undefined, Undefined, vb4),
                             Elem(TRUE, <<"1", "0">>, <<"2", "0">>, Undefined)>>) }

\* What xml2js-xpath does when asked to search a null document: the library
\* is not part of the sources, so both outcomes are kept.
XPathOnNull == { "throws", "empty" }

RECURSIVE ListsUpTo(_)
\* Lists of at most n distinct names.
ListsUpTo(n) ==
    IF n = 0 THEN { <<>> }
    ELSE LET shorter == ListsUpTo(n - 1) IN
         shorter \cup
         { Append(l, x) : l \in { m \in shorter : Len(m) = n - 1 },
                          x \in Names }

Distinct(l) == \A j, k \in 1..Len(l) : j # k => l[j] # l[k]

FileLists == { l \in ListsUpTo(MaxFiles) : Distinct(l) }

-----------------------------------------------------------------------------
(* The methods of SVCApp that compute *)

\* Lower case of the letters the names use.
Lower(str) ==
    [k \in 1..Len(str) |->
        IF str[k] = "S" THEN "s" ELSE IF str[k] = "V" THEN "v"
        ELSE IF str[k] = "G" THEN "g" ELSE str[k]]

RECURSIVE filterFilesIgnoreCase(_, _)
\* Mutant of filterFiles: the extension compared without regard to case.
filterFilesIgnoreCase(list, ext) ==
    IF Len(list) = 0 THEN <<>>
    ELSE (IF Lower(extname(list[1])) = ext THEN <<list[1]>> ELSE <<>>)
         \o filterFilesIgnoreCase(Tail(list), ext)

RECURSIVE filterFiles(_, _)
filterFiles(list, ext) ==
    IF Len(list) = 0 THEN <<>>
    ELSE (IF extname(list[1]) = ext THEN <<list[1]>> ELSE <<>>)
         \o filterFiles(Tail(list), ext)

NullDom == [null |-> TRUE, id |-> "", svgs |-> <<>>]

\* Mutant of readXmlFile: a document is returned whatever the parser said.
readXmlFileKeepsData(content) ==
    [null |-> FALSE, id |-> content.id, svgs |-> content.svgs]

\* The callback keeps `data` only when there is no error; a blank file ends
\* the parse with null data and no error.
readXmlFile(content) ==
    IF content.parse = "ok"
    THEN [null |-> FALSE, id |-> content.id, svgs |-> content.svgs]
    ELSE NullDom

\* The results of getDimensions: null, an object, or a thrown TypeError;
\* DimSkipped stands for the call not being made.
DimSkipped == [tag |-> "skipped", width |-> Undefined, height |-> Undefined]
DimNull == [tag |-> "null", width |-> Undefined, height |-> Undefined]
DimThrow == [tag |-> "TypeError", width |-> Undefined, height |-> Undefined]
Dim(w, h) == [tag |-> "dim", width |-> w, height |-> h]

getDimensions(dom, onNull) ==
    IF dom.null /\ onNull = "throws" THEN DimThrow
    ELSE IF dom.null \/ Len(dom.svgs) = 0 THEN DimNull
    ELSE LET svgTag == dom.svgs[1] IN
         IF ~svgTag.hasAttr THEN DimThrow
         ELSE LET width == IF Truthy(svgTag.width) THEN svgTag.width ELSE NumZero
                  height == IF Truthy(svgTag.height) THEN svgTag.height ELSE NumZero
              IN  IF ~Truthy(width) /\ ~Truthy(height)
                  THEN LET viewBox == IF Truthy(svgTag.viewBox)
                                      THEN svgTag.viewBox ELSE <<>>
                           tokens == Split(viewBox, " ")
                       IN  IF Len(viewBox) = 0 THEN DimNull
                           ELSE IF Len(tokens) < 4 THEN DimNull
                           ELSE Dim(tokens[3], tokens[4])
                  ELSE Dim(width, height)

\* builder.buildObject(null) throws (Object.keys of null); otherwise the
\* result is the document's markup on one line, kept as an opaque piece.
cleanUpInputFile(dom) ==
    IF dom.null THEN [threw |-> TRUE, text |-> <<>>]
    ELSE [threw |-> FALSE, text |-> <<"clean(", dom.id, ")">>]

makeCSSBlock(name, content) ==
    LET encoded == <<"base64(">> \o content \o <<")">> IN
    <<".">> \o name \o <<" {\n">>
        \o <<"    background-image: url(data:image/svg+xml;base64,">>
        \o encoded \o <<");\n">> \o <<"}\n">>

\* Mutant of blockNameOf: only the last extension is removed.
blockNameOfLastDot(prefix, file) ==
    LET fileBase == SubSeq(file, 1, LastIndexOf(file, ".", Len(file)) - 1) IN
    IF Len(prefix) > 0 THEN prefix \o fileBase ELSE fileBase

\* inputFiles[i].split('.').shift(), with the prefix when it is not empty.
blockNameOf(prefix, file) ==
    LET fileBase == Split(file, ".")[1] IN
    IF Len(prefix) > 0 THEN prefix \o fileBase ELSE fileBase

\* The two SCSS variable lines.
dimLines(blockName, dim) ==
    << <<"$">> \o blockName \o <<"-width: ">> \o Str(dim.width) \o <<";">>,
       <<"$">> \o blockName \o <<"-height: ">> \o Str(dim.height) \o <<";">> >>

\* Mutant of loopBody: the rule is pushed before the variable lines.
loopBodyRuleFirst(prefix, writeDims, file, content, onNull) ==
    LET blockName == blockNameOf(prefix, file)
        dom == readXmlFile(content)
        dim == IF writeDims THEN getDimensions(dom, onNull) ELSE DimSkipped
        pushed == IF dim.tag = "dim" THEN dimLines(blockName, dim) ELSE <<>>
        css == cleanUpInputFile(dom)
    IN  IF dim.tag = "TypeError"
        THEN [threw |-> "getDimensions", dim |-> dim, blocks |-> <<>>]
        ELSE IF css.threw
        THEN [threw |-> "cleanUpInputFile", dim |-> dim, blocks |-> <<>>]
        ELSE [threw |-> "", dim |-> dim,
              blocks |-> <<makeCSSBlock(blockName, css.text)>> \o pushed]

\* One pass of the loop of process(): what it pushes on `output`, and
\* whether (and where) it throws.
loopBody(prefix, writeDims, file, content, onNull) ==
    LET blockName == blockNameOf(prefix, file)
        dom == readXmlFile(content)
        dim == IF writeDims THEN getDimensions(dom, onNull) ELSE DimSkipped
        pushed == IF dim.tag = "dim" THEN dimLines(blockName, dim) ELSE <<>>
        css == cleanUpInputFile(dom)
    IN  IF dim.tag = "TypeError"
        THEN [threw |-> "getDimensions", dim |-> dim, blocks |-> <<>>]
        ELSE IF css.threw
        THEN [threw |-> "cleanUpInputFile", dim |-> dim, blocks |-> pushed]
        ELSE [threw |-> "", dim |-> dim,
              blocks |-> Append(pushed, makeCSSBlock(blockName, css.text))]

-----------------------------------------------------------------------------
(* The run *)

VARIABLES
    pc,               \* where the run is: "new", "readdir", "loop", "written",
                      \* "done", "exit" (process.exit) or "crashed" (uncaught throw)
    cssPrefix,        \* closure variable cssPrefix
    writeDimensions,  \* closure variable writeDimensions
    files,            \* the list process() was called with
    inputFiles,       \* the list after filterFiles
    i,                \* loop index of process(), from 1
    output,           \* the array `output` of process()
    reads,            \* the files read so far: [name, content], in order
    dims,             \* what getDimensions gave for each file read, in order
    readdirError,     \* the error argument of _readdirCallback, "pending" before
    writes,           \* the data of each fs.writeFile call, in order
    exitCode,         \* status given to process.exit, -1 when not called
    thrown            \* the method an uncaught exception came from, "" when none

vars == <<pc, cssPrefix, writeDimensions, files, inputFiles, i, output, reads,
          dims, readdirError, writes, exitCode, thrown>>

\* new SVCApp()
Init ==
    /\ pc = "new"
    /\ cssPrefix = <<>>
    /\ writeDimensions = FALSE
    /\ files = <<>>
    /\ inputFiles = <<>>
    /\ i = 1
    /\ output = <<>>
    /\ reads = <<>>
    /\ dims = <<>>
    /\ readdirError = "pending"
    /\ writes = <<>>
    /\ exitCode = -1
    /\ thrown = ""

\* init(cli): the options are stored and fs.readdir is started.
init ==
    /\ pc = "new"
    /\ \E prefix \in Prefixes, wd \in BOOLEAN :
          /\ cssPrefix' = prefix
          /\ writeDimensions' = wd
    /\ pc' = "readdir"
    /\ UNCHANGED <<files, inputFiles, i, output, reads, dims, readdirError, writes,
                   exitCode, thrown>>

\* Mutant of processEnter: process() returns when no input file is left.
processEnterReturnsEarly(list) ==
    /\ files' = list
    /\ inputFiles' = filterFiles(list, svgExt)
    /\ i' = 1
    /\ output' = <<>>
    /\ pc' = IF Len(filterFiles(list, svgExt)) < 1 THEN "done" ELSE "loop"

\* The head of process(): filter, then enter the loop with an empty output.
processEnter(list) ==
    /\ files' = list
    /\ inputFiles' = filterFiles(list, svgExt)
    /\ i' = 1
    /\ output' = <<>>
    /\ pc' = "loop"

\* Mutant of readdirCallback: the error is logged and the run goes on, with
\* no files.
readdirCallbackNoExit ==
    /\ pc = "readdir"
    /\ \/ /\ readdirError' = "error"
          /\ processEnter(<<>>)
       \/ /\ readdirError' = "none"
          /\ \E list \in FileLists : processEnter(list)
    /\ UNCHANGED <<cssPrefix, writeDimensions, reads, dims, writes, exitCode, thrown>>

\* _readdirCallback(error, files)
readdirCallback ==
    /\ pc = "readdir"
    /\ \/ /\ readdirError' = "error"
          /\ pc' = "exit"
          /\ exitCode' = 1
          /\ UNCHANGED <<files, inputFiles, i, output>>
       \/ /\ readdirError' = "none"
          /\ \E list \in FileLists : processEnter(list)
          /\ UNCHANGED exitCode
    /\ UNCHANGED <<cssPrefix, writeDimensions, reads, dims, writes, thrown>>

\* process(inputFiles, destination) called on a new instance, without init.
processCall ==
    /\ pc = "new"
    /\ \E list \in FileLists : processEnter(list)
    /\ UNCHANGED <<cssPrefix, writeDimensions, reads, dims, readdirError, writes,
                   exitCode, thrown>>

\* Mutant of loopStep: the blocks are put at the front of `output`.
loopStepUnshift ==
    /\ pc = "loop"
    /\ i <= Len(inputFiles)
    /\ \E content \in Contents, onNull \in XPathOnNull :
          LET r == loopBody(cssPrefix, writeDimensions, inputFiles[i], content, onNull)
          IN  /\ reads' = Append(reads, [name |-> inputFiles[i], content |-> content])
              /\ dims' = Append(dims, r.dim)
              /\ output' = r.blocks \o output
              /\ thrown' = r.threw
              /\ IF r.threw = ""
                 THEN pc' = "loop" /\ i' = i + 1
                 ELSE pc' = "crashed" /\ i' = i
    /\ UNCHANGED <<cssPrefix, writeDimensions, files, inputFiles, readdirError,
                   writes, exitCode>>

\* One pass of the for loop of process(), on what the file holds when read.
loopStep ==
    /\ pc = "loop"
    /\ i <= Len(inputFiles)
    /\ \E content \in Contents, onNull \in XPathOnNull :
          LET r == loopBody(cssPrefix, writeDimensions, inputFiles[i], content, onNull)
          IN  /\ reads' = Append(reads, [name |-> inputFiles[i], content |-> content])
              /\ dims' = Append(dims, r.dim)
              /\ output' = output \o r.blocks
              /\ thrown' = r.threw
              /\ IF r.threw = ""
                 THEN pc' = "loop" /\ i' = i + 1
                 ELSE pc' = "crashed" /\ i' = i
    /\ UNCHANGED <<cssPrefix, writeDimensions, files, inputFiles, readdirError,
                   writes, exitCode>>

\* The end of process(): fs.writeFile(destination, output.join('\n'), cb).
writeFile ==
    /\ pc = "loop"
    /\ i > Len(inputFiles)
    /\ writes' = Append(writes, Join(output, <<"\n">>))
    /\ pc' = "written"
    /\ UNCHANGED <<cssPrefix, writeDimensions, files, inputFiles, i, output, reads,
                   dims, readdirError, exitCode, thrown>>

\* The callback of fs.writeFile: it throws the error it is given.
writeCallback ==
    /\ pc = "written"
    /\ \E err \in BOOLEAN :
          IF err THEN pc' = "crashed" /\ thrown' = "writeFile"
                 ELSE pc' = "done" /\ thrown' = thrown
    /\ UNCHANGED <<cssPrefix, writeDimensions, files, inputFiles, i, output, reads,
                   dims, readdirError, writes, exitCode>>

Next ==
    \/ init
    \/ readdirCallback
    \/ processCall
    \/ loopStep
    \/ writeFile
    \/ writeCallback

Spec == Init /\ [][Next]_vars

-----------------------------------------------------------------------------
(* Reading the emitted text back *)

\* process() has been entered.
Entered == pc \in {"loop", "written", "done", "crashed"}

\* The name ends in the four characters ".svg" and has something before them.
EndsInDotSvg(f) ==
    /\ Len(f) > 4
    /\ f[Len(f) - 3] = "." /\ f[Len(f) - 2] = "s"
    /\ f[Len(f) - 1] = "v" /\ f[Len(f)] = "g"

\* The entries of a list that end in ".svg", in the order of the list.
SvgEntries(list) == SelectSeq(list, EndsInDotSvg)

\* The characters of a name before its first '.'.
FirstSegment(f) ==
    LET k == IndexOf(f, ".", 1) IN
    IF k = 0 THEN f ELSE SubSeq(f, 1, k - 1)

IsRule(b) == Len(b) > 0 /\ b[1] = "."
IsDimLine(b) == Len(b) > 0 /\ b[1] = "$"

\* The selector of a rule block: what stands between '.' and ' {\n'.
RuleSelector(b) == SubSeq(b, 2, IndexOf(b, " {\n", 1) - 1)

\* The document whose markup a rule block carries.
RuleDocument(b) == b[IndexOf(b, "clean(", 1) + 1]

\* A rule block has the template of makeCSSBlock around a selector and a payload.
WellFormedRule(b) ==
    LET q == IndexOf(b, " {\n", 1) IN
    /\ IsRule(b)
    /\ q > 1
    /\ Len(b) = q + 8
    /\ b[q + 1] = "    background-image: url(data:image/svg+xml;base64,"
    /\ b[q + 2] = "base64(" /\ b[q + 3] = "clean(" /\ b[q + 5] = ")" /\ b[q + 6] = ")"
    /\ b[q + 7] = ");\n"
    /\ b[q + 8] = "}\n"

\* A block is the line '$<selector><infix><value>;', infix being "-width: "
\* or "-height: ".
IsVariableLine(b, selector, infix, value) ==
    b = <<"$">> \o selector \o <<infix>> \o value \o <<";">>

\* The blocks of a written text: its parts between the joining newlines.
Blocks(text) == IF text = <<>> THEN <<>> ELSE Split(text, "\n")

\* The rule blocks of an output array, in order.
Rules(out) == SelectSeq(out, IsRule)

-----------------------------------------------------------------------------
(* Claims *)

MalformedRead == \E k \in 1..Len(reads) : reads[k].content.parse = "malformed"

\* C1: once a file that passed the filter turns out to be malformed XML, the
\* run has aborted with an uncaught exception and fs.writeFile is never
\* called; a run that did call fs.writeFile has read every filtered file and
\* none of them was malformed.
C1_MalformedAbortsBeforeWrite ==
    /\ MalformedRead =>
          /\ pc = "crashed"
          /\ thrown \in {"getDimensions", "cleanUpInputFile"}
          /\ writes = <<>>
    /\ writes # <<>> =>
          /\ Len(reads) = Len(inputFiles)
          /\ ~MalformedRead

\* C1 witness: a well-formed first file, a malformed second one, dimensions on.
C1_Witness ==
    /\ pc = "crashed"
    /\ writeDimensions
    /\ Len(reads) = 2
    /\ reads[1].content.parse = "ok"
    /\ reads[2].content.parse = "malformed"
    /\ writes = <<>>

\* C2: the text written holds exactly one rule block per file that passed
\* the filter, in the order of those files in the list process() was given,
\* each with that file's markup; fs.writeFile is called at most once, and
\* only after the last file has been processed.
C2_OneRulePerFileInOrder ==
    /\ Len(writes) <= 1
    /\ writes # <<>> =>
          LET rules == Rules(Blocks(writes[1]))
              passed == SvgEntries(files)
          IN  /\ i > Len(inputFiles)
              /\ Len(reads) = Len(passed)
              /\ Len(rules) = Len(passed)
              /\ \A k \in 1..Len(passed) :
                    /\ WellFormedRule(rules[k])
                    /\ reads[k].name = passed[k]
                    /\ RuleSelector(rules[k]) = cssPrefix \o FirstSegment(passed[k])
                    /\ RuleDocument(rules[k]) = reads[k].content.id

\* C2 witness: three files, two of them .svg around one that is not, written.
C2_Witness ==
    /\ pc = "done"
    /\ Len(files) = 3
    /\ Len(inputFiles) = 2
    /\ EndsInDotSvg(files[1]) /\ ~EndsInDotSvg(files[2]) /\ EndsInDotSvg(files[3])
    /\ reads[1].content.id # reads[2].content.id
    /\ Len(writes) = 1

NoSvgEntry == \A k \in 1..Len(files) : extname(files[k]) # svgExt

\* C3: when no entry of the list has extension .svg (the empty list
\* included), process() reads nothing, throws nothing, goes straight to the
\* write and calls fs.writeFile exactly once, with empty data.
C3_NoInputStillWritesEmpty ==
    (Entered /\ NoSvgEntry) =>
        /\ reads = <<>>
        /\ thrown \in {"", "writeFile"}
        /\ pc = "loop" => (writes = <<>> /\ ENABLED writeFile)
        /\ pc # "loop" => writes = << <<>> >>

\* C3 witness: a list of two entries, neither .svg, and the empty file written.
C3_Witness ==
    /\ pc = "done"
    /\ Len(files) = 2
    /\ NoSvgEntry
    /\ writes = << <<>> >>

\* C4: when reading the source directory fails, the run ends with exit
\* status 1 and nothing else happens: no file is read or parsed, nothing is
\* emitted, fs.writeFile is not called, and no further step is taken.
C4_ReaddirErrorExits ==
    readdirError = "error" =>
        /\ pc = "exit"
        /\ exitCode = 1
        /\ reads = <<>> /\ dims = <<>> /\ output = <<>> /\ writes = <<>>
        /\ ~ENABLED Next

\* C4 witness: the callback got an error and the process exited.
C4_Witness == readdirError = "error" /\ pc = "exit" /\ exitCode = 1

-----------------------------------------------------------------------------
(* Claims about getDimensions *)

Present(v) == v # Undefined /\ v # <<>>

\* getDimensions was called on file k, whose document has an svg element with
\* attributes.
MeasuredWithAttributes(k) ==
    /\ dims[k].tag # "skipped"
    /\ reads[k].content.parse = "ok"
    /\ Len(reads[k].content.svgs) > 0
    /\ reads[k].content.svgs[1].hasAttr

\* The dimensions a viewBox gives: tokens 2 and 3 (from 0) when it is there
\* and splits on single spaces into at least 4 tokens, otherwise none.
FromViewBox(e) ==
    IF Present(e.viewBox) /\ Len(Split(e.viewBox, " ")) >= 4
    THEN Dim(Split(e.viewBox, " ")[3], Split(e.viewBox, " ")[4])
    ELSE DimNull

\* C5 (as claimed): width and height are returned verbatim only when both
\* attributes are present and non-empty, and in every other case the result
\* comes from the viewBox (or is none).
C5_BothOrViewBox ==
    \A k \in 1..Len(reads) :
        MeasuredWithAttributes(k) =>
            LET e == reads[k].content.svgs[1] IN
            dims[k] = IF Present(e.width) /\ Present(e.height)
                      THEN Dim(e.width, e.height)
                      ELSE FromViewBox(e)

ZeroOrEmpty(v) == v = <<"0">> \/ v = <<>>

\* C8 (as claimed): width and height of "0" or "" count as absent, so with a
\* 4-token viewBox the dimensions are the viewBox's.
C8_ZeroOrEmptyFallsThrough ==
    \A k \in 1..Len(reads) :
        MeasuredWithAttributes(k) =>
            LET e == reads[k].content.svgs[1] IN
            (ZeroOrEmpty(e.width) /\ ZeroOrEmpty(e.height)
                /\ FromViewBox(e).tag = "dim") => dims[k] = FromViewBox(e)

\* C8 (amended): only the empty string counts as absent. With width="" and
\* height="" and a 4-token viewBox the dimensions are the viewBox's; with
\* width="0" and height="0" the dimensions are ("0", "0"), viewBox or not.
C8_OnlyEmptyFallsThrough ==
    \A k \in 1..Len(reads) :
        MeasuredWithAttributes(k) =>
            LET e == reads[k].content.svgs[1] IN
            /\ (e.width = <<>> /\ e.height = <<>> /\ FromViewBox(e).tag = "dim")
                  => dims[k] = FromViewBox(e)
            /\ (e.width = <<"0">> /\ e.height = <<"0">>)
                  => dims[k] = Dim(<<"0">>, <<"0">>)

\* C8 witness: both cases have been measured in one run.
C8_Witness ==
    /\ Len(dims) = 2
    /\ reads[1].content.id = "00+vb" /\ dims[1].tag = "dim"
    /\ reads[2].content.id = "empty+vb" /\ dims[2].tag = "dim"

\* C9 (as claimed): on a parsed document with no svg element, or whose first
\* svg element has no attributes, getDimensions gives none without failing,
\* and the file's rule is emitted, without variable lines.
C9_NoSvgOrNoAttributesGivesNone ==
    \A k \in 1..Len(reads) :
        (/\ dims[k].tag # "skipped"
         /\ reads[k].content.parse = "ok"
         /\ \/ Len(reads[k].content.svgs) = 0
            \/ ~reads[k].content.svgs[1].hasAttr) =>
            /\ dims[k] = DimNull
            /\ thrown # "getDimensions"
            /\ Len(Rules(output)) >= k

-----------------------------------------------------------------------------
(* Claims about the emitted blocks *)

\* How many passes of the loop ran to their end.
Completed ==
    IF pc = "crashed" /\ thrown # "writeFile" THEN Len(reads) - 1 ELSE Len(reads)

RECURSIVE Grouped(_, _)
\* The blocks `out` are the groups of files k, k+1, ...: for each file its two
\* variable lines exactly when dimensions are enabled and were found, and
\* right after them the file's own rule.
Grouped(out, k) ==
    IF Len(out) = 0 THEN k = Completed + 1
    ELSE /\ k <= Completed
         /\ LET sel == cssPrefix \o FirstSegment(reads[k].name)
                n == IF writeDimensions /\ dims[k].tag = "dim" THEN 2 ELSE 0
            IN  /\ Len(out) > n
                /\ n = 2 =>
                      /\ IsVariableLine(out[1], sel, "-width: ", Str(dims[k].width))
                      /\ IsVariableLine(out[2], sel, "-height: ", Str(dims[k].height))
                /\ WellFormedRule(out[n + 1])
                /\ RuleSelector(out[n + 1]) = sel
                /\ RuleDocument(out[n + 1]) = reads[k].content.id
                /\ Grouped(SubSeq(out, n + 2, Len(out)), k + 1)

\* C10: a file's two variable lines (width, then height) are emitted exactly
\* when write-dimensions is on and getDimensions returned dimensions for it,
\* and they stand immediately before that file's rule; with write-dimensions
\* off there is no variable line; the text written is these blocks.
C10_VariableLinesBeforeOwnRule ==
    /\ Grouped(output, 1)
    /\ ~writeDimensions => \A p \in 1..Len(output) : ~IsDimLine(output[p])
    /\ writes # <<>> => Blocks(writes[1]) = output

\* C10 witness: dimensions on, a first file without dimensions and a second
\* with them, written.
C10_Witness ==
    /\ pc = "done"
    /\ writeDimensions
    /\ Len(dims) = 2
    /\ dims[1].tag = "null"
    /\ dims[2].tag = "dim"
    /\ Len(output) = 4
    /\ IsRule(output[1]) /\ IsDimLine(output[2]) /\ IsDimLine(output[3])
    /\ IsRule(output[4])

\* C6: process() keeps exactly the entries that end in ".svg" (matching case,
\* with a name before the dot), in their order; a.svg.txt and a.SVG are
\* dropped; only kept entries are read, and only files read get a rule.
C6_OnlyExactSvgProcessed ==
    /\ Entered =>
          /\ inputFiles = SvgEntries(files)
          /\ inputFiles = filterFiles(files, svgExt)
          /\ \A k \in 1..Len(inputFiles) :
                /\ inputFiles[k] # <<"a", ".", "s", "v", "g", ".", "t", "x", "t">>
                /\ inputFiles[k] # <<"a", ".", "S", "V", "G">>
    /\ Len(reads) <= Len(inputFiles)
    /\ \A k \in 1..Len(reads) : reads[k].name = inputFiles[k]
    /\ Len(Rules(output)) <= Len(reads)

\* C6 witness: a.svg.txt, a.SVG and a.svg were listed and only a.svg was read.
C6_Witness ==
    /\ pc = "done"
    /\ files = << <<"a", ".", "s", "v", "g", ".", "t", "x", "t">>,
                  <<"a", ".", "S", "V", "G">>,
                  <<"a", ".", "s", "v", "g">> >>
    /\ Len(reads) = 1
    /\ reads[1].name = <<"a", ".", "s", "v", "g">>

\* The selector of a variable line: what stands between '$' and the infix.
LineSelector(b) ==
    LET w == IndexOf(b, "-width: ", 1)
        h == IndexOf(b, "-height: ", 1)
    IN  SubSeq(b, 2, (IF w > 0 THEN w ELSE h) - 1)

\* The file a block of the output belongs to: the one of the next rule.
OwnerOf(p) == Len(Rules(SubSeq(output, 1, p - 1))) + 1

\* C7: the selector of every rule and of every variable line is the prefix
\* followed by the part of the file's name before its first '.'; so
\* icon.min.svg with prefix "ui-" gives "ui-icon", and "icon" without prefix.
C7_SelectorIsPrefixPlusFirstSegment ==
    \A p \in 1..Len(output) :
        LET name == reads[OwnerOf(p)].name
            sel == IF IsRule(output[p]) THEN RuleSelector(output[p])
                   ELSE LineSelector(output[p])
        IN  /\ OwnerOf(p) <= Len(reads)
            /\ sel = cssPrefix \o FirstSegment(name)
            /\ name = <<"i", "c", "o", "n", ".", "m", "i", "n", ".", "s", "v", "g">> =>
                  sel = cssPrefix \o <<"i", "c", "o", "n">>

\* C7 witness: icon.min.svg under prefix "ui-" got variable lines and a rule
\* named ui-icon.
C7_Witness ==
    /\ pc = "done"
    /\ cssPrefix = <<"u", "i", "-">>
    /\ Len(output) = 3
    /\ reads[1].name = <<"i", "c", "o", "n", ".", "m", "i", "n", ".", "s", "v", "g">>
    /\ LineSelector(output[1]) = <<"u", "i", "-", "i", "c", "o", "n">>
    /\ RuleSelector(output[3]) = <<"u", "i", "-", "i", "c", "o", "n">>

====
